---- MODULE Spec2Model ----
(***************************************************************************)
(* Model of the bitcask storage engine of src/src/lib.rs (OnDisk<K, V>),   *)
(* instantiated as in src/src/main.rs with K = String and V = String.      *)
(* Segment files are byte sequences; records are laid out byte for byte    *)
(* as bincode (fixed-width little-endian integers, length-prefixed         *)
(* strings) lays them out.                                                 *)
(***************************************************************************)
EXTENDS Integers, Sequences, FiniteSets, TLC

(* ------------------------------------------------------------------ *)
(* Bounds and inputs                                                   *)
(* ------------------------------------------------------------------ *)

\* sync() is not taken once the active segment id has reached this value
MaxFileId == 3

\* number of operations applied to one handle
MaxOps == 7

\* keys "" and "\0" (the keys of tests::crash_1), as byte strings
K1 == <<>>
K2 == <<0>>
Keys == {K1, K2}

\* values "a" and "bb", as byte strings
V1 == <<97>>
V2 == <<98, 98>>
Vals == {V1, V2}

(* ------------------------------------------------------------------ *)
(* bincode encodings                                                   *)
(* ------------------------------------------------------------------ *)

\* width in bytes of a bincode-serialized u32 (the checksum)
U32Len == 4
\* width in bytes of a bincode-serialized usize / u64 (lengths)
U64Len == 8
\* a decoded length is only ever compared with buffer sizes: saturate it
LenCap == 65536

\* 256^(i-1) for the four low bytes; every integer encoded is below 2^31
Pow256 == <<1, 256, 65536, 16777216>>

\* n as w little-endian bytes
LE(n, w) ==
    [i \in 1..w |-> IF i > Len(Pow256) THEN 0 ELSE (n \div Pow256[i]) % 256]

RECURSIVE FromLE(_)
\* the integer held by little-endian bytes b, saturated at LenCap
FromLE(b) ==
    IF b = <<>> THEN 0
    ELSE LET rest == FromLE(Tail(b))
         IN  IF rest >= LenCap \div 256 THEN LenCap
             ELSE b[1] + 256 * rest

\* bincode::serialize of a String: u64 length prefix, then the bytes
SerString(s) == LE(Len(s), U64Len) \o s

\* bincode::serialize of a usize
SerUsize(n) == LE(n, U64Len)

RECURSIVE Utf8Valid(_)
\* std::str::from_utf8 accepts s
Utf8Valid(s) ==
    IF s = <<>> THEN TRUE
    ELSE LET b == s[1]
             Cont(i) == i <= Len(s) /\ s[i] >= 128 /\ s[i] <= 191
             From(i) == IF i > Len(s) THEN <<>> ELSE SubSeq(s, i, Len(s))
         IN  IF b < 128 THEN Utf8Valid(Tail(s))
             ELSE IF b >= 194 /\ b <= 223
                  THEN Cont(2) /\ Utf8Valid(From(3))
             ELSE IF b >= 224 /\ b <= 239
                  THEN /\ Cont(2) /\ Cont(3)
                       /\ (b = 224 => s[2] >= 160)
                       /\ (b = 237 => s[2] <= 159)
                       /\ Utf8Valid(From(4))
             ELSE IF b >= 240 /\ b <= 244
                  THEN /\ Cont(2) /\ Cont(3) /\ Cont(4)
                       /\ (b = 240 => s[2] >= 144)
                       /\ (b = 244 => s[2] <= 143)
                       /\ Utf8Valid(From(5))
             ELSE FALSE

\* bincode::deserialize::<String>(buf): length prefix, that many bytes,
\* UTF-8 check; trailing bytes are ignored
DeString(buf) ==
    IF Len(buf) < U64Len THEN [ok |-> FALSE, v |-> <<>>]
    ELSE LET n == FromLE(SubSeq(buf, 1, U64Len))
         IN  IF n > Len(buf) - U64Len THEN [ok |-> FALSE, v |-> <<>>]
             ELSE LET s == SubSeq(buf, U64Len + 1, U64Len + n)
                  IN  IF Utf8Valid(s) THEN [ok |-> TRUE, v |-> s]
                      ELSE [ok |-> FALSE, v |-> <<>>]

RECURSIVE DigestFrom(_, _, _)
DigestFrom(h, bytes, i) ==
    IF i > Len(bytes) THEN h
    ELSE DigestFrom((h * 31 + bytes[i]) % 16777216, bytes, i + 1)

\* the CRC-32 digest over key_len, value_len, key, value.  No operation of
\* the engine reads a checksum back, so the polynomial is abstracted by a
\* rolling hash; the width of the field is kept.
Checksum(sk, sv) ==
    DigestFrom(0, SerUsize(Len(sk)) \o SerUsize(Len(sv)) \o sk \o sv, 1)

\* the bytes written before the value: checksum, key_len, value_len, key
RecordHead(sk, sv) ==
    LE(Checksum(sk, sv), U32Len) \o SerUsize(Len(sk)) \o SerUsize(Len(sv)) \o sk

\* the whole record of (key, value), as put and serialize_to_file write it
EncodeRecord(key, value) ==
    RecordHead(SerString(key), SerString(value)) \o SerString(value)

\* the records of the input keys and values, computed once
RecordTable == [k \in Keys, v \in Vals |-> EncodeRecord(k, v)]

Record(key, value) ==
    IF key \in Keys /\ value \in Vals THEN RecordTable[key, value]
    ELSE EncodeRecord(key, value)

\* mutant of ValuePos: the position is taken before the key is written
ValuePosBeforeKey(start, rec, value) == start + U32Len + U64Len + U64Len

\* offset of the value bytes inside a record rec that starts at start:
\* the stream position after checksum, key_len, value_len and key
ValuePos(start, rec, value) == start + Len(rec) - Len(SerString(value))

(* ------------------------------------------------------------------ *)
(* Files                                                               *)
(* ------------------------------------------------------------------ *)

EmptyMap == [x \in {} |-> x]

MapPut(m, k, v) == [x \in DOMAIN m \cup {k} |-> IF x = k THEN v ELSE m[x]]

MapRemove(m, k) == [x \in DOMAIN m \ {k} |-> m[x]]

\* writing bytes at offset pos of file content f (a seek past the end
\* followed by a write fills the gap with zero bytes)
WriteAt(f, pos, bytes) ==
    LET n == Len(bytes)
        before == IF pos <= Len(f) THEN SubSeq(f, 1, pos)
                  ELSE f \o [i \in 1..(pos - Len(f)) |-> 0]
        after == IF pos + n < Len(f) THEN SubSeq(f, pos + n + 1, Len(f))
                 ELSE <<>>
    IN  before \o bytes \o after

(* ------------------------------------------------------------------ *)
(* State                                                               *)
(* ------------------------------------------------------------------ *)

VARIABLES
    key_dir,        \* live key -> (file_id, value_len, value_pos, slot)
    delete_map,     \* deleted key -> its last directory entry
    free_slots,     \* length -> sequence of freed slots (a Vec)
    file_id,        \* id of the active segment
    file_position,  \* tail offset of the active segment
    is_dirty,
    files,          \* segment id -> content of {prefix}.{id}.db
    temps,          \* segment id -> content of {prefix}.{id}.temp.db
    lastOp,         \* the operation applied last, with its arguments
    lastRes,        \* "ok" or "err": what it returned
    lastPath,       \* the branch it took: put "reuse" / "append", delete
                    \* "live" / "absent", sync and prune "dirty" / "clean"
    allOk,          \* no operation has returned an error so far
    pruned,         \* prune() has been called on the handle
    ref,            \* reference map: key -> value most recently put
    nops            \* number of operations applied

vars == <<key_dir, delete_map, free_slots, file_id, file_position, is_dirty,
          files, temps, lastOp, lastRes, lastPath, allOk, pruned, ref, nops>>

mem == <<key_dir, delete_map, free_slots, file_id, file_position, is_dirty>>

Slot(fid, start, end) == [file_id |-> fid, start |-> start, end |-> end]

Entry(fid, vlen, vpos, slot) ==
    [file_id |-> fid, value_len |-> vlen, value_pos |-> vpos, slot |-> slot]

Op(name, key, value) == [name |-> name, key |-> key, value |-> value]

\* OnDisk::open on a prefix with no files: {prefix}.1.db is created empty
Init ==
    /\ key_dir = EmptyMap
    /\ delete_map = EmptyMap
    /\ free_slots = EmptyMap
    /\ file_id = 1
    /\ file_position = 0
    /\ is_dirty = FALSE
    /\ files = MapPut(EmptyMap, 1, <<>>)
    /\ temps = EmptyMap
    /\ lastOp = Op("open", <<>>, <<>>)
    /\ lastRes = "ok"
    /\ lastPath = "open"
    /\ allOk = TRUE
    /\ pruned = FALSE
    /\ ref = EmptyMap
    /\ nops = 0

(* ------------------------------------------------------------------ *)
(* get                                                                 *)
(* ------------------------------------------------------------------ *)

None == [tag |-> "none", v |-> <<>>]
Panic == [tag |-> "panic", v |-> <<>>]
Some(v) == [tag |-> "some", v |-> v]

\* OnDisk::get against directory kd and segment files fs
GetIn(kd, fs, key) ==
    IF key \notin DOMAIN kd THEN None
    ELSE LET e == kd[key]
         IN  IF e.file_id \notin DOMAIN fs THEN Panic
             ELSE LET f == fs[e.file_id]
                  IN  IF e.value_pos + e.value_len > Len(f) THEN Panic
                      ELSE LET d == DeString(SubSeq(f, e.value_pos + 1,
                                              e.value_pos + e.value_len))
                           IN  IF d.ok THEN Some(d.v) ELSE Panic

Get(key) == GetIn(key_dir, files, key)

\* OnDisk::keys
LiveKeys == DOMAIN key_dir

(* ------------------------------------------------------------------ *)
(* delete                                                              *)
(* ------------------------------------------------------------------ *)

\* mutant of PushSlot: delete does not record the freed extent
PushSlotDropped(fs, slot) == fs

\* free_slots.entry(distance).or_default().push(slot)
PushSlot(fs, slot) ==
    LET distance == slot.end - slot.start
    IN  IF distance \in DOMAIN fs
        THEN [fs EXCEPT ![distance] = Append(@, slot)]
        ELSE MapPut(fs, distance, <<slot>>)

\* mutant of DeleteIn: a key that is not live is logged all the same
DeleteInAlwaysLogs(kd, fs, dm, key) ==
    IF key \in DOMAIN kd
    THEN [key_dir |-> MapRemove(kd, key),
          free_slots |-> PushSlot(fs, kd[key].slot),
          delete_map |-> MapPut(dm, key, kd[key])]
    ELSE [key_dir |-> kd, free_slots |-> fs,
          delete_map |-> MapPut(dm, key, Entry(0, 0, 0, Slot(0, 0, 0)))]

\* mutant of DeleteIn: the directory entry is not removed
DeleteInKeepsEntry(kd, fs, dm, key) ==
    IF key \in DOMAIN kd
    THEN [key_dir |-> kd,
          free_slots |-> PushSlot(fs, kd[key].slot),
          delete_map |-> MapPut(dm, key, kd[key])]
    ELSE [key_dir |-> kd, free_slots |-> fs, delete_map |-> dm]

\* the in-memory effect of OnDisk::delete on (kd, fs, dm)
DeleteIn(kd, fs, dm, key) ==
    IF key \in DOMAIN kd
    THEN [key_dir |-> MapRemove(kd, key),
          free_slots |-> PushSlot(fs, kd[key].slot),
          delete_map |-> MapPut(dm, key, kd[key])]
    ELSE [key_dir |-> kd, free_slots |-> fs, delete_map |-> dm]

Delete(key) ==
    \E d \in {DeleteIn(key_dir, free_slots, delete_map, key)} :
        /\ nops < MaxOps
        /\ key_dir' = d.key_dir
        /\ free_slots' = d.free_slots
        /\ delete_map' = d.delete_map
        /\ UNCHANGED <<file_id, file_position, is_dirty, files, temps>>
        /\ lastOp' = Op("delete", key, <<>>)
        /\ lastRes' = "ok"
        /\ lastPath' = IF key \in DOMAIN key_dir THEN "live" ELSE "absent"
        /\ ref' = MapRemove(ref, key)
        /\ UNCHANGED <<allOk, pruned>>
        /\ nops' = nops + 1

(* ------------------------------------------------------------------ *)
(* put                                                                 *)
(* ------------------------------------------------------------------ *)

\* self.free_slots.range(total_len..).next() and free_slots.last(): the
\* first bucket of length >= total_len, and its last slot if it has one
FirstBucket(fs, total_len) ==
    CHOOSE l \in DOMAIN fs :
        l >= total_len /\ \A m \in DOMAIN fs : m >= total_len => l <= m

SlotOfBucket(fs, length) ==
    IF fs[length] = <<>>
    THEN [found |-> FALSE, length |-> length, slot |-> Slot(0, 0, 0)]
    ELSE [found |-> TRUE, length |-> length,
          slot |-> fs[length][Len(fs[length])]]

SelectSlot(fs, total_len) ==
    IF \A l \in DOMAIN fs : l < total_len
    THEN [found |-> FALSE, length |-> 0, slot |-> Slot(0, 0, 0)]
    ELSE SlotOfBucket(fs, FirstBucket(fs, total_len))

\* free_slots.pop() on the bucket the slot was taken from
PopSlot(fs, length) ==
    [fs EXCEPT ![length] = SubSeq(@, 1, Len(@) - 1)]

\* the tail position a put that reused a free slot leaves behind
TailAfterReuse(fp, end_pos) == end_pos

\* the two branches of put (lines 192-255) once the prior entry is deleted
\* (d), the record is encoded (rec) and the free-slot index consulted (sel)
PutPlace(d, rec, sel, key, value) ==
    LET total_len == Len(rec)
        vlen == Len(SerString(value))
        Err(path) ==
               [ok |-> FALSE, path |-> path, key_dir |-> d.key_dir,
                free_slots |-> d.free_slots, delete_map |-> d.delete_map,
                file_position |-> file_position, is_dirty |-> is_dirty,
                files |-> files]
    IN  IF sel.found
        THEN IF sel.slot.file_id \notin DOMAIN files THEN Err("reuse")
             ELSE [ok |-> TRUE, path |-> "reuse",
                   key_dir |-> MapPut(d.key_dir, key,
                       Entry(sel.slot.file_id, vlen,
                             ValuePos(sel.slot.start, rec, value),
                             Slot(sel.slot.file_id, sel.slot.start,
                                  sel.slot.start + total_len))),
                   free_slots |-> PopSlot(d.free_slots, sel.length),
                   delete_map |-> d.delete_map,
                   file_position |->
                       TailAfterReuse(file_position, sel.slot.start + total_len),
                   is_dirty |-> TRUE,
                   files |-> [files EXCEPT ![sel.slot.file_id] =
                                WriteAt(@, sel.slot.start, rec)]]
        ELSE IF file_id \notin DOMAIN files THEN Err("append")
             ELSE [ok |-> TRUE, path |-> "append",
                   key_dir |-> MapPut(d.key_dir, key,
                       Entry(file_id, vlen,
                             ValuePos(file_position, rec, value),
                             Slot(file_id, file_position,
                                  file_position + total_len))),
                   free_slots |-> d.free_slots,
                   delete_map |-> d.delete_map,
                   file_position |-> file_position + total_len,
                   is_dirty |-> TRUE,
                   files |-> [files EXCEPT ![file_id] =
                                WriteAt(@, file_position, rec)]]

\* OnDisk::put from the state after the deletion path
PutAfterDelete(d, rec, key, value) ==
    PutPlace(d, rec, SelectSlot(d.free_slots, Len(rec)), key, value)

\* OnDisk::put: whether it returned ok, the in-memory state and the files
PutResult(key, value) ==
    PutAfterDelete(DeleteIn(key_dir, free_slots, delete_map, key),
                   Record(key, value), key, value)

Put(key, value) ==
    \E r \in {PutResult(key, value)} :
        /\ nops < MaxOps
        /\ key_dir' = r.key_dir
        /\ free_slots' = r.free_slots
        /\ delete_map' = r.delete_map
        /\ file_position' = r.file_position
        /\ is_dirty' = r.is_dirty
        /\ files' = r.files
        /\ UNCHANGED <<file_id, temps>>
        /\ lastOp' = Op("put", key, value)
        /\ lastRes' = IF r.ok THEN "ok" ELSE "err"
        /\ lastPath' = r.path
        /\ allOk' = (allOk /\ r.ok)
        /\ ref' = IF r.ok THEN MapPut(ref, key, value) ELSE ref
        /\ UNCHANGED pruned
        /\ nops' = nops + 1

(* ------------------------------------------------------------------ *)
(* sync                                                                *)
(* ------------------------------------------------------------------ *)

\* mutant of SyncTarget: the segment id is not advanced before the
\* create-and-truncate
SyncTargetNoRoll(fid) == fid

\* the id of the segment a dirty sync creates and truncates
SyncTarget(fid) == fid + 1

\* mutant of SyncRolls: the segment is rolled whether or not the handle
\* is dirty
SyncRollsAlways(dirty) == TRUE

\* `if self.is_dirty` of sync: whether the active segment is rolled
SyncRolls(dirty) == dirty

Sync ==
    /\ nops < MaxOps
    /\ is_dirty => file_id < MaxFileId
    /\ IF SyncRolls(is_dirty)
       THEN /\ file_id' = SyncTarget(file_id)
            /\ files' = MapPut(files, SyncTarget(file_id), <<>>)
            /\ file_position' = 0
            /\ is_dirty' = FALSE
       ELSE UNCHANGED <<file_id, files, file_position, is_dirty>>
    /\ UNCHANGED <<key_dir, delete_map, free_slots, temps>>
    /\ lastOp' = Op("sync", <<>>, <<>>)
    /\ lastRes' = "ok"
    /\ lastPath' = IF is_dirty THEN "dirty" ELSE "clean"
    /\ UNCHANGED <<allOk, pruned, ref>>
    /\ nops' = nops + 1

(* ------------------------------------------------------------------ *)
(* prune                                                               *)
(* ------------------------------------------------------------------ *)

RECURSIVE KeyLess(_, _)
\* the order of String keys: lexicographic on bytes
KeyLess(a, b) ==
    IF b = <<>> THEN FALSE
    ELSE IF a = <<>> THEN TRUE
    ELSE IF a[1] # b[1] THEN a[1] < b[1]
    ELSE KeyLess(Tail(a), Tail(b))

RECURSIVE SortedKeys(_)
\* iteration order of a BTreeMap with key set S
SortedKeys(S) ==
    IF S = {} THEN <<>>
    ELSE LET m == CHOOSE k \in S : \A o \in S \ {k} : KeyLess(k, o)
         IN  <<m>> \o SortedKeys(S \ {m})

RECURSIVE RemoveSegments(_, _, _)
\* for f_id in from..=last { fs::remove_file(..)? }
RemoveSegments(fs, from, last) ==
    IF from > last THEN [ok |-> TRUE, files |-> fs]
    ELSE IF from \notin DOMAIN fs THEN [ok |-> FALSE, files |-> fs]
    ELSE RemoveSegments(MapRemove(fs, from), from + 1, last)

\* the segment id serialize_to_file stamps on the entry it returns
SerializedFileId(active, original) == active

\* OnDisk::serialize_to_file on the scratch file of segment tid
SerializeToFile(tmp, tid, key, value, original) ==
    LET start_pos == Len(tmp[tid])
        rec == Record(key, value)
        end_pos == start_pos + Len(rec)
        fid == SerializedFileId(file_id, original)
    IN  [temps |-> [tmp EXCEPT ![tid] = WriteAt(@, start_pos, rec)],
         entry |-> Entry(fid, Len(SerString(value)),
                         ValuePos(start_pos, rec, value),
                         Slot(fid, start_pos, end_pos))]

\* one iteration of the rewrite loop of prune
PruneStep(acc, key) ==
    LET e == key_dir[key]
        tmp == IF e.file_id \in DOMAIN acc.temps THEN acc.temps
               ELSE MapPut(acc.temps, e.file_id, <<>>)
        Err == [ok |-> FALSE, temps |-> tmp, nkd |-> acc.nkd,
                swap |-> acc.swap]
    IN  IF e.file_id \notin DOMAIN files THEN Err
        ELSE IF e.value_pos + e.value_len > Len(files[e.file_id]) THEN Err
        ELSE LET d == DeString(SubSeq(files[e.file_id], e.value_pos + 1,
                                      e.value_pos + e.value_len))
             IN  IF ~d.ok THEN Err
                 ELSE LET w == SerializeToFile(tmp, e.file_id, key, d.v,
                                               e.file_id)
                      IN  [ok |-> TRUE, temps |-> w.temps,
                           nkd |-> MapPut(acc.nkd, key, w.entry),
                           swap |-> acc.swap \cup {w.entry.file_id}]

RECURSIVE PruneLoop(_, _)
PruneLoop(acc, keys) ==
    IF keys = <<>> \/ ~acc.ok THEN acc
    ELSE PruneLoop(PruneStep(acc, Head(keys)), Tail(keys))

RECURSIVE SwapFiles(_, _, _)
\* for file_id in files_to_swap { fs::rename(temp, file)? }
SwapFiles(fs, tmp, ids) ==
    IF ids = <<>> THEN [ok |-> TRUE, files |-> fs, temps |-> tmp]
    ELSE IF Head(ids) \notin DOMAIN tmp
         THEN [ok |-> FALSE, files |-> fs, temps |-> tmp]
    ELSE SwapFiles(MapPut(fs, Head(ids), tmp[Head(ids)]),
                   MapRemove(tmp, Head(ids)), Tail(ids))

RECURSIVE SortedIds(_)
SortedIds(S) ==
    IF S = {} THEN <<>>
    ELSE LET m == CHOOSE i \in S : \A o \in S : i <= o
         IN  <<m>> \o SortedIds(S \ {m})

\* the free-slot index prune leaves behind
FreeSlotsAfterPrune(fs) == fs

\* mutant of PruneFinish: the in-memory state is replaced before the
\* renames, so a failed rename returns an error with the directory swapped
PruneFinishEarlyCommit(loop) ==
    LET sw == SwapFiles(loop.files, loop.temps, SortedIds(loop.swap))
    IN  IF ~loop.ok
        THEN [ok |-> FALSE, key_dir |-> key_dir, delete_map |-> delete_map,
              free_slots |-> free_slots, is_dirty |-> is_dirty,
              files |-> loop.files, temps |-> loop.temps]
        ELSE [ok |-> sw.ok, key_dir |-> loop.nkd, delete_map |-> EmptyMap,
              free_slots |-> FreeSlotsAfterPrune(free_slots),
              is_dirty |-> FALSE, files |-> sw.files, temps |-> sw.temps]

\* the end of prune: swap the scratch files in, then replace the
\* in-memory state; an error of the loop or of a rename returns early
PruneFinish(loop) ==
    LET Err(fs, tmp) ==
            [ok |-> FALSE, key_dir |-> key_dir, delete_map |-> delete_map,
             free_slots |-> free_slots, is_dirty |-> is_dirty,
             files |-> fs, temps |-> tmp]
    IN  IF ~loop.ok THEN Err(loop.files, loop.temps)
        ELSE LET sw == SwapFiles(loop.files, loop.temps, SortedIds(loop.swap))
             IN  IF ~sw.ok THEN Err(sw.files, sw.temps)
                 ELSE [ok |-> TRUE, key_dir |-> loop.nkd,
                       delete_map |-> EmptyMap,
                       free_slots |-> FreeSlotsAfterPrune(free_slots),
                       is_dirty |-> FALSE,
                       files |-> sw.files, temps |-> sw.temps]

\* OnDisk::prune on a dirty handle
PruneResult ==
    LET rm == IF key_dir = EmptyMap
              THEN RemoveSegments(files, 2, file_id)
              ELSE [ok |-> TRUE, files |-> files]
        loop == IF ~rm.ok
                THEN [ok |-> FALSE, temps |-> temps, nkd |-> EmptyMap,
                      swap |-> {}]
                ELSE PruneLoop([ok |-> TRUE, temps |-> temps,
                                nkd |-> EmptyMap, swap |-> {}],
                               SortedKeys(DOMAIN key_dir))
    IN  PruneFinish([ok |-> loop.ok, files |-> rm.files, temps |-> loop.temps,
                     nkd |-> loop.nkd, swap |-> loop.swap])

Prune ==
    /\ nops < MaxOps
    /\ IF is_dirty
       THEN \E r \in {PruneResult} :
                /\ key_dir' = r.key_dir
                /\ delete_map' = r.delete_map
                /\ free_slots' = r.free_slots
                /\ is_dirty' = r.is_dirty
                /\ files' = r.files
                /\ temps' = r.temps
                /\ lastRes' = IF r.ok THEN "ok" ELSE "err"
                /\ allOk' = (allOk /\ r.ok)
       ELSE /\ UNCHANGED <<key_dir, delete_map, free_slots, is_dirty,
                           files, temps, allOk>>
            /\ lastRes' = "ok"
    /\ UNCHANGED <<file_id, file_position>>
    /\ lastOp' = Op("prune", <<>>, <<>>)
    /\ lastPath' = IF is_dirty THEN "dirty" ELSE "clean"
    /\ pruned' = TRUE
    /\ UNCHANGED ref
    /\ nops' = nops + 1

(* ------------------------------------------------------------------ *)
(* Specification: eval_op applied to any script of operations          *)
(* ------------------------------------------------------------------ *)

Next ==
    \/ \E k \in Keys, v \in Vals : Put(k, v)
    \/ \E k \in Keys : Delete(k)
    \/ Sync
    \/ Prune

Spec == Init /\ [][Next]_vars

(* ------------------------------------------------------------------ *)
(* Properties                                                          *)
(* ------------------------------------------------------------------ *)

\* what the reference map says get(key) returns
RefGet(key) == IF key \in DOMAIN ref THEN Some(ref[key]) ELSE None

\* the extents [s1, e1) and [s2, e2) of two slots do not intersect
Disjoint(a, b) == a.file_id # b.file_id \/ a.end <= b.start \/ b.end <= a.start

\* the slots held by the free-slot index
\* C1: read-after-write: when put(k, v) has returned ok, a get(k) issued
\* immediately afterwards returns v.
C1_ReadAfterWrite ==
    (lastOp.name = "put" /\ lastRes = "ok")
        => Get(lastOp.key) = Some(lastOp.value)

\* C1 witness: a put returned ok after placing its record into a freed
\* extent of an older segment, and get reads the value back from there.
C1_Witness ==
    /\ lastOp.name = "put" /\ lastRes = "ok"
    /\ key_dir[lastOp.key].file_id < file_id
    /\ Get(lastOp.key) = Some(lastOp.value)

\* C2: round trip through prune: the mapping {k -> get(k)} is the same
\* immediately before and immediately after a prune() that returns ok.
C2_PruneRoundTrip ==
    [][(lastOp'.name = "prune" /\ lastRes' = "ok")
         => \A k \in Keys : GetIn(key_dir', files', k) = Get(k)]_vars

\* C3: reference map: after successful put, delete and sync operations (no
\* prune) on a fresh handle, get(k) returns the value of the most recent
\* put(k, _) for every key put and not deleted since, and absent otherwise.
C3_ReferenceMap ==
    (allOk /\ ~pruned) => \A k \in Keys : Get(k) = RefGet(k)

\* C4: no two distinct live directory entries of the same segment have
\* overlapping extents.
C4_LiveExtentsDisjoint ==
    \A a, b \in DOMAIN key_dir :
        a # b => Disjoint(key_dir[a].slot, key_dir[b].slot)

\* C5: fuzz contract: every operation of any script applied to a freshly
\* opened handle returns ok.
C5_EveryOpOk == allOk

\* C6: no extent of the free-slot index overlaps the extent of a live
\* directory entry of the same segment.
C6_FreeLiveDisjoint ==
    \A k \in DOMAIN key_dir :
        \A l \in DOMAIN free_slots :
            \A i \in 1..Len(free_slots[l]) :
                Disjoint(key_dir[k].slot, free_slots[l][i])

\* C7: no ghost entries: for every key reported by keys(), get succeeds
\* (the segment exists, the read is not short, the value decodes).
C7_NoGhostEntries ==
    \A k \in LiveKeys : Get(k).tag = "some"

\* C8: put is all-or-nothing: a put that returns an error leaves the
\* directory, free-slot index, delete-log, tail position and dirty flag as
\* they were before the call.
C8_PutAllOrNothing ==
    [][(lastOp'.name = "put" /\ lastRes' = "err") => mem' = mem]_vars

\* C9: prune is all-or-nothing on the in-memory state: when prune() returns
\* an error, the directory, the free-slot index, the delete-log and the
\* dirty flag are what they were before the call.
C9_PruneAllOrNothing ==
    [][(lastOp'.name = "prune" /\ lastRes' = "err")
         => /\ key_dir' = key_dir
            /\ free_slots' = free_slots
            /\ delete_map' = delete_map
            /\ is_dirty' = is_dirty]_vars

\* C9 witness: a prune of a non-empty directory returned an error after it
\* had written scratch files.
C9_Witness ==
    /\ lastOp.name = "prune" /\ lastRes = "err"
    /\ key_dir # EmptyMap
    /\ DOMAIN temps # {}

\* C10: round trip through sync: sync() leaves the directory, the free-slot
\* index and the delete-log unchanged, does not touch a segment that holds a
\* live record, and so preserves the mapping {k -> get(k)}.
C10_SyncRoundTrip ==
    [][lastOp'.name = "sync"
         => /\ key_dir' = key_dir
            /\ free_slots' = free_slots
            /\ delete_map' = delete_map
            /\ \A k \in DOMAIN key_dir :
                 key_dir[k].file_id \in DOMAIN files
                   => /\ key_dir[k].file_id \in DOMAIN files'
                      /\ files'[key_dir[k].file_id] = files[key_dir[k].file_id]
            /\ \A k \in Keys : GetIn(key_dir', files', k) = Get(k)]_vars

\* C10 witness: a sync has just rolled the active segment while live
\* records sit in an older one.
C10_Witness ==
    /\ lastOp.name = "sync"
    /\ file_id > 1 /\ file_position = 0 /\ files[file_id] = <<>>
    /\ \E k \in DOMAIN key_dir :
         key_dir[k].file_id < file_id /\ Get(k).tag = "some"

\* slot is one of the extents held by free-slot index fs
InFreeSlots(fs, slot) ==
    \E l \in DOMAIN fs : \E i \in 1..Len(fs[l]) : fs[l][i] = slot

\* a successful put(k, v1) is immediately followed by a successful put(k, v2)
OverwriteStep ==
    /\ lastOp.name = "put" /\ lastRes = "ok"
    /\ lastOp'.name = "put" /\ lastRes' = "ok"
    /\ lastOp'.key = lastOp.key

ReusedBy(slot) ==
    /\ lastOp'.name = "put" /\ lastRes' = "ok" /\ lastPath' = "reuse"
    /\ key_dir'[lastOp'.key].slot.file_id = slot.file_id
    /\ key_dir'[lastOp'.key].slot.start = slot.start

C12_DeleteRemoves ==
    [][\A k \in Keys :
         /\ (lastOp'.name = "delete" /\ lastOp'.key = k)
              => GetIn(key_dir', files', k) = None
         /\ (Get(k) = None /\ ~(lastOp'.name = "put" /\ lastOp'.key = k))
              => GetIn(key_dir', files', k) = None]_vars

\* C12 witness: k was put and then deleted, a put of another key has been
\* applied since, and get(k) is absent.
C12_Witness ==
    \E k \in Keys :
        /\ allOk
        /\ k \in DOMAIN delete_map /\ k \notin DOMAIN ref
        /\ lastOp.name = "put" /\ lastOp.key # k
        /\ Get(k) = None

\* C13: idempotent delete: delete returns ok; delete of a key that is not
\* live changes nothing; and a second delete(k) applied to the state a
\* delete(k) leaves yields that same state.
C13_IdempotentDelete ==
    [][lastOp'.name = "delete"
         => /\ lastRes' = "ok"
            /\ lastOp'.key \notin DOMAIN key_dir
                 => (mem' = mem /\ files' = files /\ temps' = temps)
            /\ DeleteIn(key_dir', free_slots', delete_map', lastOp'.key)
                 = [key_dir |-> key_dir', free_slots |-> free_slots',
                    delete_map |-> delete_map']]_vars

\* C13 witness: delete(k) has just been applied to a key that an earlier
\* delete(k) had already removed.
C13_Witness ==
    /\ allOk
    /\ lastOp.name = "delete" /\ lastPath = "absent"
    /\ lastOp.key \in DOMAIN delete_map
    /\ lastOp.key \notin DOMAIN key_dir

\* C14: reusing a free slot never moves the active tail: a put that places
\* its record into an extent of the free-slot index leaves file_position
\* unchanged; file_position changes only when a put appends at the tail or
\* when sync rolls the segment.
C14_ReuseKeepsTail ==
    [][/\ (lastOp'.name = "put" /\ lastPath' = "reuse")
            => file_position' = file_position
       /\ file_position' # file_position
            => \/ lastOp'.name = "put" /\ lastPath' = "append"
               \/ lastOp'.name = "sync" /\ lastPath' = "dirty"]_vars

\* C15: after a prune() that returns ok on a dirty handle, the free-slot
\* index holds no extent, the delete-log is empty and the dirty flag is
\* clear.
C15_PruneClearsIndexes ==
    (lastOp.name = "prune" /\ lastPath = "dirty" /\ lastRes = "ok")
        => /\ \A l \in DOMAIN free_slots : free_slots[l] = <<>>
           /\ delete_map = EmptyMap
           /\ ~is_dirty

\* the segments that hold a live record according to directory kd
LiveSegments(kd) == {kd[k].file_id : k \in DOMAIN kd}

\* C16: prune keeps every live record in its own segment: after a prune()
\* that returns ok on a dirty handle, each live key names the segment it
\* named before, its record is read back from that segment, exactly the
\* segments that held live records were rewritten, and no scratch file is
\* left behind.
C16_PruneKeepsSegments ==
    [][(lastOp'.name = "prune" /\ lastPath' = "dirty" /\ lastRes' = "ok")
         => /\ DOMAIN key_dir' = DOMAIN key_dir
            /\ \A k \in DOMAIN key_dir :
                 /\ key_dir'[k].file_id = key_dir[k].file_id
                 /\ GetIn(key_dir', files', k) = Get(k)
            /\ \A id \in DOMAIN files \ LiveSegments(key_dir) :
                 key_dir # EmptyMap
                   => (id \in DOMAIN files' /\ files'[id] = files[id])
            /\ temps' = EmptyMap]_vars

\* the length classes of index fs that hold an extent of length >= len
Available(fs, len) == {l \in DOMAIN fs : l >= len /\ fs[l] # <<>>}

\* the smallest member of a non-empty set of lengths
Smallest(S) == CHOOSE l \in S : \A m \in S : l <= m

\* C17: free-slot selection policy: a put of record length L reuses the most
\* recently freed extent of the smallest length class >= L that contains an
\* extent, and removes it from the index, whenever such a class exists; it
\* appends at the active tail only when no free extent of length >= L
\* exists.
C17_SelectionPolicy ==
    [][(lastOp'.name = "put" /\ lastRes' = "ok")
         => LET fs == DeleteIn(key_dir, free_slots, delete_map,
                               lastOp'.key).free_slots
                L == Len(Record(lastOp'.key, lastOp'.value))
                avail == Available(fs, L)
            IN  IF avail = {}
                THEN lastPath' = "append"
                ELSE /\ lastPath' = "reuse"
                     /\ ReusedBy(fs[Smallest(avail)][Len(fs[Smallest(avail)])])
                     /\ free_slots' = PopSlot(fs, Smallest(avail))]_vars

\* C18: dirty-flag semantics: the handle is dirty exactly when a mutation (a
\* successful put, or a delete that removed a live key) has occurred since
\* the latest of open, the last sync and the last successful prune.  As a
\* step property: a mutation sets the flag, a sync or a successful prune
\* clears it, and nothing else changes it.
C18_DirtyFlag ==
    [][is_dirty' =
         IF \/ lastOp'.name = "put" /\ lastRes' = "ok"
            \/ lastOp'.name = "delete" /\ lastPath' = "live"
         THEN TRUE
         ELSE IF \/ lastOp'.name = "sync"
                 \/ lastOp'.name = "prune" /\ lastRes' = "ok"
              THEN FALSE
              ELSE is_dirty]_vars

\* C19: on a clean handle sync() and prune() are no-ops: segment id, tail
\* position, directory, free-slot index, delete-log, dirty flag and the
\* segment files are unchanged and ok is returned; the engine moves to a new
\* segment (segment id + 1, created empty, tail position 0) only in a sync
\* on a dirty handle.
C19_CleanNoOp ==
    [][/\ (lastOp'.name \in {"sync", "prune"} /\ ~is_dirty)
            => /\ mem' = mem
               /\ files' = files
               /\ temps' = temps
               /\ lastRes' = "ok"
       /\ file_id' # file_id
            => /\ lastOp'.name = "sync" /\ is_dirty
               /\ file_id' = file_id + 1
               /\ file_position' = 0
               /\ DOMAIN files' = DOMAIN files \cup {file_id'}
               /\ files'[file_id'] = <<>>]_vars

\* C19 witness: prune has just been called on a clean handle whose
\* free-slot index holds an extent and whose directory is not empty.
C19_Witness ==
    /\ lastOp.name = "prune" /\ lastPath = "clean" /\ lastRes = "ok"
    /\ ~is_dirty
    /\ key_dir # EmptyMap
    /\ \E l \in DOMAIN free_slots : free_slots[l] # <<>>

\* C20: in every reachable state the active segment file
\* {prefix}.{segment_id}.db exists on disk.
C20_ActiveSegmentExists == file_id \in DOMAIN files
====
